---- MODULE Spec2Model ----
(***************************************************************************)
(* Model of the notebook document model (src/src/schema/notebook.py) and   *)
(* of the cell and conversion operations (src/src/tools/notebook.py).      *)
(*                                                                         *)
(* A text is a sequence of one-character strings.  A JSON value that may   *)
(* be missing is an option record [st, v]: st = "absent" (no key),         *)
(* st = "null" (JSON null / Python None) or st = "set" (v is the value).   *)
(* A cell source is [kind, val]: kind = "str" with val = <<text>>, or      *)
(* kind = "list" with val = the sequence of strings.  A mapping whose      *)
(* values do not matter (metadata, unknown keys) is the set of its keys.   *)
(***************************************************************************)
EXTENDS Integers, Sequences, FiniteSets, TLC

VARIABLES nb, last, calls, files

vars == <<nb, last, calls, files>>

----------------------------------------------------------------------------
(* Bounds *)

MaxInitCells == 2
MaxCalls == 2
MaxMdLen == 5

----------------------------------------------------------------------------
(* Option values *)

Absent(d) == [st |-> "absent", v |-> d]
Null(d) == [st |-> "null", v |-> d]
Some(x) == [st |-> "set", v |-> x]

NL == "\n"

StrSource(t) == [kind |-> "str", val |-> <<t>>]
ListSource(l) == [kind |-> "list", val |-> l]

RECURSIVE Join(_)
(* ''.join(l) *)
Join(l) == IF l = <<>> THEN <<>> ELSE Head(l) \o Join(Tail(l))

RECURSIVE Split(_)
(* t.split('\n') *)
Split(t) ==
    IF \A i \in 1..Len(t) : t[i] # NL
    THEN <<t>>
    ELSE LET k == CHOOSE i \in 1..Len(t) : t[i] = NL /\ \A j \in 1..(i-1) : t[j] # NL
         IN <<SubSeq(t, 1, k-1)>> \o Split(SubSeq(t, k+1, Len(t)))

(* content.split('\n') if isinstance(content, str) else content *)
SplitContent(content) ==
    IF content.kind = "str" THEN ListSource(Split(content.val[1])) ELSE content

(* Python truthiness of a source: '' and [] are falsy *)
Truthy(source) ==
    IF source.kind = "str" THEN source.val[1] # <<>> ELSE source.val # <<>>

CellTypes == {"code", "markdown", "raw"}

----------------------------------------------------------------------------
(* Document model: parsing and serialisation *)

DefaultNbformat == 4
DefaultNbformatMinor == 5

(* CellOutput.parse_obj: metadata defaults to {}, unknown keys are ignored *)
CellOutput(jo) ==
    [output_type |-> jo.output_type,
     metadata |-> IF jo.metadata.st = "absent" THEN Some({}) ELSE jo.metadata]

(* Cell.parse_obj: metadata defaults to {}, outputs and execution_count to
   None, unknown keys are kept (extra = "allow") *)
Cell(jc) ==
    [cell_type |-> jc.cell_type,
     metadata |-> IF jc.metadata.st = "set" THEN jc.metadata.v ELSE {},
     source |-> jc.source,
     outputs |-> IF jc.outputs.st = "set"
                 THEN Some([i \in 1..Len(jc.outputs.v) |-> CellOutput(jc.outputs.v[i])])
                 ELSE Null(<<>>),
     execution_count |-> IF jc.execution_count.st = "set" THEN jc.execution_count
                         ELSE Null(0),
     extra |-> jc.extra]

(* Cell(cell_type=..., metadata=..., source=...) as the operations build it *)
NewCell(cell_type, metadata, source) ==
    [cell_type |-> cell_type, metadata |-> metadata, source |-> source,
     outputs |-> Null(<<>>), execution_count |-> Null(0), extra |-> {}]

(* notebook_from_json: json.loads, then Notebook.parse_obj *)
notebook_from_json(j) ==
    [cells |-> IF j.cells.st = "set"
               THEN [i \in 1..Len(j.cells.v) |-> Cell(j.cells.v[i])]
               ELSE <<>>,
     metadata |-> IF j.metadata.st = "set" THEN j.metadata.v ELSE {},
     nbformat |-> IF j.nbformat.st = "set" THEN j.nbformat.v ELSE DefaultNbformat,
     nbformat_minor |-> IF j.nbformat_minor.st = "set" THEN j.nbformat_minor.v
                        ELSE DefaultNbformatMinor,
     extra |-> j.extra]

(* .dict(exclude_none=True): a None field has no key in the output *)
ExcludeNone(o, d) == IF o.st = "set" THEN o ELSE Absent(d)

OutputToJson(o) ==
    [output_type |-> o.output_type,
     metadata |-> ExcludeNone(o.metadata, {}),
     extra |-> {}]

CellToJson(c) ==
    [cell_type |-> c.cell_type,
     metadata |-> Some(c.metadata),
     source |-> c.source,
     outputs |-> IF c.outputs.st = "set"
                 THEN Some([i \in 1..Len(c.outputs.v) |-> OutputToJson(c.outputs.v[i])])
                 ELSE Absent(<<>>),
     execution_count |-> ExcludeNone(c.execution_count, 0),
     extra |-> c.extra]

(* notebook_to_json: json.dumps(notebook.dict(exclude_none=True)) *)
notebook_to_json(n) ==
    [cells |-> Some([i \in 1..Len(n.cells) |-> CellToJson(n.cells[i])]),
     metadata |-> Some(n.metadata),
     nbformat |-> Some(n.nbformat),
     nbformat_minor |-> Some(n.nbformat_minor),
     extra |-> n.extra]

----------------------------------------------------------------------------
(* Results of an operation: the returned notebook, or the error raised *)

Ok(n) == [ok |-> TRUE, out |-> <<notebook_to_json(n)>>, err |-> "none"]
Fail(kind) == [ok |-> FALSE, out |-> <<>>, err |-> kind]

----------------------------------------------------------------------------
(* Cell operations.  Indices are 0-based as in the source; cells[i+1] is
   the cell at index i. *)

NoType == "None"

(* Add outputs and execution_count for code cells *)
CodeDefaults(c) ==
    IF c.cell_type = "code"
    THEN [c EXCEPT !.outputs = Some(<<>>), !.execution_count = Null(0)]
    ELSE c

(* metadata or {} *)
MetadataOrEmpty(metadata) == IF metadata.st = "set" THEN metadata.v ELSE {}

(* edit_cell resetting outputs and execution_count for markdown only *)
edit_cell_MarkdownOnly(notebook_json, cell_index, new_content, cell_type) ==
    LET notebook == notebook_from_json(notebook_json) IN
    IF cell_index < 0 \/ cell_index >= Len(notebook.cells) THEN Fail("range")
    ELSE IF cell_type # NoType /\ cell_type \notin CellTypes THEN Fail("invalid_type")
    ELSE
      LET c0 == notebook.cells[cell_index + 1]
          c1 == [c0 EXCEPT !.source = SplitContent(new_content)]
          c2 == IF cell_type = NoType THEN c1 ELSE [c1 EXCEPT !.cell_type = cell_type]
          c3 == IF cell_type = "markdown"
                THEN [c2 EXCEPT !.outputs = Some(<<>>), !.execution_count = Null(0)]
                ELSE c2
      IN Ok([notebook EXCEPT !.cells[cell_index + 1] = c3])

edit_cell(notebook_json, cell_index, new_content, cell_type) ==
    LET notebook == notebook_from_json(notebook_json) IN
    IF cell_index < 0 \/ cell_index >= Len(notebook.cells) THEN Fail("range")
    ELSE IF cell_type # NoType /\ cell_type \notin CellTypes THEN Fail("invalid_type")
    ELSE
      LET c0 == notebook.cells[cell_index + 1]
          c1 == [c0 EXCEPT !.source = SplitContent(new_content)]
          c2 == IF cell_type = NoType THEN c1 ELSE [c1 EXCEPT !.cell_type = cell_type]
          c3 == IF cell_type \in {"markdown", "raw"}
                THEN [c2 EXCEPT !.outputs = Some(<<>>), !.execution_count = Null(0)]
                ELSE c2
      IN Ok([notebook EXCEPT !.cells[cell_index + 1] = c3])

(* create_cell storing the content without splitting it into lines *)
create_cell_NoSplit(notebook_json, content, cell_type, metadata) ==
    LET notebook == notebook_from_json(notebook_json) IN
    IF cell_type \notin CellTypes THEN Fail("invalid_type")
    ELSE
      LET new_cell == CodeDefaults(NewCell(cell_type, MetadataOrEmpty(metadata), content))
      IN Ok([notebook EXCEPT !.cells = Append(notebook.cells, new_cell)])

create_cell(notebook_json, content, cell_type, metadata) ==
    LET notebook == notebook_from_json(notebook_json) IN
    IF cell_type \notin CellTypes THEN Fail("invalid_type")
    ELSE
      LET new_cell == CodeDefaults(NewCell(cell_type, MetadataOrEmpty(metadata),
                                           SplitContent(content)))
      IN Ok([notebook EXCEPT !.cells = Append(notebook.cells, new_cell)])

(* list.insert placing x one place too far *)
ListInsert_After(l, position, x) ==
    LET at == IF position < Len(l) THEN position + 1 ELSE Len(l) IN
    SubSeq(l, 1, at) \o <<x>> \o SubSeq(l, at + 1, Len(l))

(* list.insert(position, x) for 0 <= position <= len *)
ListInsert(l, position, x) ==
    SubSeq(l, 1, position) \o <<x>> \o SubSeq(l, position + 1, Len(l))

(* insert_cell without the upper bound on position; list.insert clamps *)
insert_cell_NoUpperBound(notebook_json, position, content, cell_type, metadata) ==
    LET notebook == notebook_from_json(notebook_json) IN
    IF cell_type \notin CellTypes THEN Fail("invalid_type")
    ELSE IF position < 0 THEN Fail("range")
    ELSE
      LET new_cell == CodeDefaults(NewCell(cell_type, MetadataOrEmpty(metadata),
                                           SplitContent(content)))
          at == IF position > Len(notebook.cells) THEN Len(notebook.cells) ELSE position
      IN Ok([notebook EXCEPT !.cells =
                SubSeq(notebook.cells, 1, at) \o <<new_cell>>
                \o SubSeq(notebook.cells, at + 1, Len(notebook.cells))])

insert_cell(notebook_json, position, content, cell_type, metadata) ==
    LET notebook == notebook_from_json(notebook_json) IN
    IF cell_type \notin CellTypes THEN Fail("invalid_type")
    ELSE IF position < 0 \/ position > Len(notebook.cells) THEN Fail("range")
    ELSE
      LET new_cell == CodeDefaults(NewCell(cell_type, MetadataOrEmpty(metadata),
                                           SplitContent(content)))
      IN Ok([notebook EXCEPT !.cells = ListInsert(notebook.cells, position, new_cell)])

RECURSIVE MergeContent(_, _)
(* the loop over cells_to_merge; merged_content is the accumulator *)
MergeContent(cells_to_merge, merged_content) ==
    IF cells_to_merge = <<>> THEN merged_content
    ELSE
      LET source == Head(cells_to_merge).source
          sep == IF merged_content # <<>> /\ Truthy(source)
                 THEN Append(merged_content, <<NL>>)
                 ELSE merged_content
          ext == IF source.kind = "list" THEN sep \o source.val
                 ELSE Append(sep, source.val[1])
      IN MergeContent(Tail(cells_to_merge), ext)

(* merge_cells reusing the first cell instead of building a new one *)
merge_cells_KeepFirst(notebook_json, start_index, end_index) ==
    LET notebook == notebook_from_json(notebook_json)
        cell_count == Len(notebook.cells)
    IN
    IF notebook.cells = <<>> THEN Fail("range")
    ELSE IF start_index < 0 \/ start_index >= cell_count THEN Fail("range")
    ELSE IF end_index < start_index \/ end_index >= cell_count THEN Fail("range")
    ELSE
      LET cells_to_merge == SubSeq(notebook.cells, start_index + 1, end_index + 1)
          merged_cell == [cells_to_merge[1] EXCEPT
                            !.source = ListSource(MergeContent(cells_to_merge, <<>>))]
      IN Ok([notebook EXCEPT !.cells =
                SubSeq(notebook.cells, 1, start_index) \o <<merged_cell>>
                \o SubSeq(notebook.cells, end_index + 2, cell_count)])

merge_cells(notebook_json, start_index, end_index) ==
    LET notebook == notebook_from_json(notebook_json)
        cell_count == Len(notebook.cells)
    IN
    IF notebook.cells = <<>> THEN Fail("range")
    ELSE IF start_index < 0 \/ start_index >= cell_count THEN Fail("range")
    ELSE IF end_index < start_index \/ end_index >= cell_count THEN Fail("range")
    ELSE
      LET cells_to_merge == SubSeq(notebook.cells, start_index + 1, end_index + 1)
          merged_cell == CodeDefaults(NewCell(cells_to_merge[1].cell_type,
                                              cells_to_merge[1].metadata,
                                              ListSource(MergeContent(cells_to_merge, <<>>))))
      IN Ok([notebook EXCEPT !.cells =
                SubSeq(notebook.cells, 1, start_index) \o <<merged_cell>>
                \o SubSeq(notebook.cells, end_index + 2, cell_count)])

append_cell(notebook_json, content, cell_type, metadata) ==
    create_cell(notebook_json, content, cell_type, metadata)

swap_cells(notebook_json, index1, index2) ==
    LET notebook == notebook_from_json(notebook_json)
        cell_count == Len(notebook.cells)
    IN
    IF notebook.cells = <<>> THEN Fail("range")
    ELSE IF index1 < 0 \/ index1 >= cell_count \/ index2 < 0 \/ index2 >= cell_count
         THEN Fail("range")
    ELSE Ok([notebook EXCEPT !.cells =
               [notebook.cells EXCEPT ![index1 + 1] = notebook.cells[index2 + 1],
                                      ![index2 + 1] = notebook.cells[index1 + 1]]])

RECURSIVE CodeOf_NotMarkdown(_)
(* the loop taking every cell that is not markdown *)
CodeOf_NotMarkdown(cells) ==
    IF cells = <<>> THEN <<>>
    ELSE LET cell == Head(cells) IN
         IF cell.cell_type # "markdown"
         THEN <<IF cell.source.kind = "list" THEN Join(cell.source.val)
                ELSE cell.source.val[1]>> \o CodeOf_NotMarkdown(Tail(cells))
         ELSE CodeOf_NotMarkdown(Tail(cells))

RECURSIVE CodeOf(_)
(* the loop of extract_code_from_notebook over notebook.cells *)
CodeOf(cells) ==
    IF cells = <<>> THEN <<>>
    ELSE LET cell == Head(cells) IN
         IF cell.cell_type = "code"
         THEN <<IF cell.source.kind = "list" THEN Join(cell.source.val)
                ELSE cell.source.val[1]>> \o CodeOf(Tail(cells))
         ELSE CodeOf(Tail(cells))

extract_code_from_notebook(notebook_json) ==
    CodeOf(notebook_from_json(notebook_json).cells)

----------------------------------------------------------------------------
(* notebook_from_markdown *)

IsSpace(c) == c \in {" ", NL}

(* number of '#' characters of t starting at position p *)
HashRun(t, p) ==
    IF p > Len(t) \/ t[p] # "#" THEN 0
    ELSE (CHOOSE e \in p..Len(t) :
            /\ \A k \in p..e : t[k] = "#"
            /\ (e = Len(t) \/ t[e + 1] # "#")) - p + 1

(* ^ under (?m): at the start of the text or right after a newline *)
LineStart(t, p) == p = 1 \/ t[p - 1] = NL

(* $ under (?m): at the end of the text or right before a newline *)
LineEnd(t, p) == p = Len(t) + 1 \/ t[p] = NL

(* The match of (?m)^(#+\s.*?)$ starting at p: the position after its last
   character, or 0 when there is no match at p.  After the run of '#' comes
   one whitespace character (a newline included), then the shortest run of
   non-newline characters that ends at a line end. *)
MatchEnd(t, p) ==
    LET h == HashRun(t, p) IN
    IF /\ p <= Len(t)
       /\ LineStart(t, p)
       /\ h >= 1
       /\ p + h <= Len(t)
       /\ IsSpace(t[p + h])
    THEN CHOOSE e \in (p + h + 1)..(Len(t) + 1) :
            /\ LineEnd(t, e)
            /\ \A k \in (p + h + 1)..(e - 1) : ~LineEnd(t, k)
    ELSE 0

RECURSIVE ReSplit(_, _)
(* re.split(r'(?m)^(#+\s.*?)$', t), scanning from position pos *)
ReSplit(t, pos) ==
    LET M == {p \in pos..Len(t) : MatchEnd(t, p) # 0} IN
    IF M = {} THEN <<SubSeq(t, pos, Len(t))>>
    ELSE LET p == CHOOSE x \in M : \A y \in M : x <= y
             e == MatchEnd(t, p)
         IN <<SubSeq(t, pos, p - 1), SubSeq(t, p, e - 1)>> \o ReSplit(t, e)

(* not s.strip() *)
Blank(s) == \A k \in 1..Len(s) : IsSpace(s[k])

(* re.match(r'^#+\s', s) *)
HeaderMatch(s) ==
    LET h == HashRun(s, 1) IN h >= 1 /\ h + 1 <= Len(s) /\ IsSpace(s[h + 1])

MarkdownCell(source) ==
    [cell_type |-> "markdown", metadata |-> Some({}), source |-> ListSource(source),
     outputs |-> Absent(<<>>), execution_count |-> Absent(0), extra |-> {}]

RECURSIVE MarkdownCells(_, _)
(* the while loop over cell_contents, i is the 1-based position *)
MarkdownCells(cell_contents, i) ==
    IF i > Len(cell_contents) THEN <<>>
    ELSE IF i < Len(cell_contents) /\ HeaderMatch(cell_contents[i])
    THEN <<MarkdownCell(Split(cell_contents[i] \o <<NL>> \o cell_contents[i + 1]))>>
         \o MarkdownCells(cell_contents, i + 2)
    ELSE <<MarkdownCell(Split(cell_contents[i]))>> \o MarkdownCells(cell_contents, i + 1)

DefaultMetadata == {"kernelspec", "language_info"}

notebook_from_markdown(markdown_content) ==
    LET split == ReSplit(markdown_content, 1)
        cell_contents == IF Blank(split[1]) THEN Tail(split) ELSE split
        cells == IF cell_contents = <<>>
                 THEN <<MarkdownCell(Split(markdown_content))>>
                 ELSE MarkdownCells(cell_contents, 1)
    IN [cells |-> Some(cells), metadata |-> Some(DefaultMetadata),
        nbformat |-> Some(4), nbformat_minor |-> Some(5), extra |-> {}]

----------------------------------------------------------------------------
(* Format conversion.  A format name is a text.  The nbconvert package and
   the file system are outside the program: whether the package can be
   imported, whether the exporter renders the notebook and whether the file
   can be opened for writing are inputs of the call. *)

UpperCase == <<"A", "B", "C", "D", "E", "F", "G", "H", "I", "J", "K", "L", "M",
               "N", "O", "P", "Q", "R", "S", "T", "U", "V", "W", "X", "Y", "Z">>
LowerCase == <<"a", "b", "c", "d", "e", "f", "g", "h", "i", "j", "k", "l", "m",
               "n", "o", "p", "q", "r", "s", "t", "u", "v", "w", "x", "y", "z">>

(* str.lower() *)
Lower(t) ==
    [k \in 1..Len(t) |->
        IF \E u \in 1..Len(UpperCase) : UpperCase[u] = t[k]
        THEN LowerCase[CHOOSE u \in 1..Len(UpperCase) : UpperCase[u] = t[k]]
        ELSE t[k]]

SupportedFormats ==
    {<<"p", "y", "t", "h", "o", "n">>, <<"h", "t", "m", "l">>,
     <<"m", "a", "r", "k", "d", "o", "w", "n">>, <<"r", "s", "t">>,
     <<"l", "a", "t", "e", "x">>, <<"p", "d", "f">>,
     <<"s", "l", "i", "d", "e", "s">>}

(* what exporter.from_notebook_node returns for the notebook *)
Rendering(exporter, notebook, exclude_input, exclude_output) ==
    [exporter |-> exporter, notebook |-> notebook_to_json(notebook),
     exclude_input |-> exclude_input, exclude_output |-> exclude_output]

(* convert_notebook_to_format choosing the python exporter for an unknown name *)
convert_notebook_to_format_Fallback(notebook_json, output_format, exclude_input, exclude_output, installed, exported) ==
    IF ~installed THEN Fail("import")
    ELSE
      LET notebook_model == notebook_from_json(notebook_json)
          name == IF Lower(output_format) \in SupportedFormats THEN Lower(output_format)
                  ELSE <<"p", "y", "t", "h", "o", "n">>
      IN
      IF ~exported THEN Fail("export")
      ELSE [ok |-> TRUE,
            out |-> <<Rendering(name, notebook_model, exclude_input, exclude_output)>>,
            err |-> "none"]

convert_notebook_to_format(notebook_json, output_format, exclude_input, exclude_output, installed, exported) ==
    IF ~installed THEN Fail("import")
    ELSE
      LET notebook_model == notebook_from_json(notebook_json) IN
      IF Lower(output_format) \notin SupportedFormats THEN Fail("unsupported_format")
      ELSE IF ~exported THEN Fail("export")
      ELSE [ok |-> TRUE,
            out |-> <<Rendering(Lower(output_format), notebook_model,
                                exclude_input, exclude_output)>>,
            err |-> "none"]

(* open(output_path, 'w') and f.write(output) *)
WriteFile(fs, path, output) ==
    {f \in fs : f.path # path} \cup {[path |-> path, text |-> output]}

(* the result and the files after the call; fs are the files before it *)
convert_notebook_to_executable(notebook_json, output_format, output_path, installed, exported, written, fs) ==
    LET r == convert_notebook_to_format(notebook_json, output_format, FALSE, FALSE,
                                        installed, exported)
    IN
    IF ~r.ok THEN [res |-> Fail(r.err), files |-> fs]
    ELSE IF output_path.st = "set" /\ output_path.v # ""
    THEN IF written
         THEN [res |-> r, files |-> WriteFile(fs, output_path.v, r.out[1])]
         ELSE [res |-> Fail("io"), files |-> fs]
    ELSE [res |-> r, files |-> fs]

----------------------------------------------------------------------------
(* Notebooks handed to the operations: well-formed ipynb documents *)

JsonCell(cell_type, source, outputs, execution_count, extra) ==
    [cell_type |-> cell_type, metadata |-> Some({}), source |-> source,
     outputs |-> outputs, execution_count |-> execution_count, extra |-> extra]

(* an execute_result output, and a stream output (which has no metadata key
   in the notebook format) carrying a key the schema does not name *)
ResultOutput == [output_type |-> "execute_result", metadata |-> Some({}), extra |-> {}]
StreamOutput == [output_type |-> "stream", metadata |-> Absent({}), extra |-> {"x"}]

MdCell == JsonCell("markdown", ListSource(<< <<"t">> >>), Absent(<<>>), Absent(0), {})
RawCell == JsonCell("raw", StrSource(<<"r", NL, "s">>), Absent(<<>>), Absent(0), {})
FreshCell == JsonCell("code", StrSource(<<>>), Some(<<>>), Null(0), {})
EmptyCell == JsonCell("code", ListSource(<<>>), Some(<<>>), Null(0), {})
RunCell == JsonCell("code", ListSource(<< <<"a", NL>>, <<"b">> >>),
                    Some(<<ResultOutput>>), Some(1), {})
StreamCell == JsonCell("code", StrSource(<<"c">>), Some(<<StreamOutput>>), Some(2), {"id"})

InitCells == {MdCell, RawCell, FreshCell, EmptyCell, RunCell, StreamCell}

JsonNotebook(cells) ==
    [cells |-> Some(cells), metadata |-> Some({"kernelspec"}),
     nbformat |-> Some(4), nbformat_minor |-> Some(2), extra |-> {}]

CodeCell(t) == JsonCell("code", ListSource(<<t>>), Some(<<>>), Null(0), {})

(* [markdown, code("a=1"), code("b=2"), markdown] *)
ExtractExample ==
    JsonNotebook(<<MdCell, CodeCell(<<"a", "=", "1">>), CodeCell(<<"b", "=", "2">>), MdCell>>)

(* a 5-cell notebook *)
MergeExample == JsonNotebook(<<MdCell, RunCell, FreshCell, RawCell, MdCell>>)

(* the document {} : every top-level key missing *)
BareNotebook ==
    [cells |-> Absent(<<>>), metadata |-> Absent({}), nbformat |-> Absent(0),
     nbformat_minor |-> Absent(0), extra |-> {}]

(* a notebook with a top-level key and a metadata key the schema does not name *)
ExtendedNotebook ==
    [cells |-> Some(<<MdCell, RunCell>>), metadata |-> Some({"kernelspec", "custom"}),
     nbformat |-> Some(4), nbformat_minor |-> Some(2), extra |-> {"custom"}]

CellSeqs == UNION {[1..n -> InitCells] : n \in 0..MaxInitCells}

InitNotebooks ==
    {JsonNotebook(cs) : cs \in CellSeqs} \cup {ExtractExample, MergeExample, BareNotebook, ExtendedNotebook}

(* Arguments of the calls *)

Contents == {StrSource(<<>>), StrSource(<<"p", NL, "q">>), ListSource(<<>>)}
TypeArgs == CellTypes \cup {"bogus"}
MetadataArgs == {Null({}), Some({"k"})}
CellCount(j) == Len(notebook_from_json(j).cells)
Indices(j) == (-1)..(CellCount(j) + 1)

Alphabet == {"#", " ", NL, "x"}

RECURSIVE Texts(_)
Texts(n) ==
    IF n = 0 THEN {<<>>}
    ELSE LET S == Texts(n - 1)
         IN S \cup {Append(t, c) : t \in {u \in S : Len(u) = n - 1}, c \in Alphabet}

(* "# Title\nBody\n## Sub\nMore" *)
MarkdownExample ==
    <<"#", " ", "x", NL, "x", NL, "#", "#", " ", "x", NL, "x">>

MarkdownInputs == Texts(MaxMdLen) \cup {MarkdownExample}

NoArgs ==
    [i |-> 0, j |-> 0, content |-> StrSource(<<>>), cell_type |-> NoType,
     metadata |-> Null({}), md |-> <<>>,
     output_format |-> <<>>, exclude_input |-> FALSE, exclude_output |-> FALSE,
     output_path |-> Null(""), installed |-> TRUE, exported |-> TRUE, written |-> TRUE]

NoCall == [op |-> "none", args |-> NoArgs, before |-> BareNotebook,
           res |-> Fail("none"), code |-> <<>>, files |-> {}]

----------------------------------------------------------------------------
(* The caller: hands nb to an operation and keeps what comes back *)

Init ==
    /\ nb \in InitNotebooks
    /\ last = NoCall
    /\ calls = 0
    /\ files = {}

Call(op, args, res) ==
    /\ last' = [op |-> op, args |-> args, before |-> nb, res |-> res, code |-> <<>>,
                files |-> files]
    /\ nb' = IF res.ok THEN res.out[1] ELSE nb
    /\ calls' = calls + 1
    /\ UNCHANGED files

EditCall ==
    \E i \in Indices(nb), c \in Contents, t \in TypeArgs \cup {NoType} :
        Call("edit", [NoArgs EXCEPT !.i = i, !.content = c, !.cell_type = t],
             edit_cell(nb, i, c, t))

CreateCall ==
    \E c \in Contents, t \in TypeArgs, m \in MetadataArgs :
        Call("create", [NoArgs EXCEPT !.content = c, !.cell_type = t, !.metadata = m],
             create_cell(nb, c, t, m))

AppendCall ==
    \E c \in Contents, t \in TypeArgs, m \in MetadataArgs :
        Call("append", [NoArgs EXCEPT !.content = c, !.cell_type = t, !.metadata = m],
             append_cell(nb, c, t, m))

InsertCall ==
    \E i \in Indices(nb), c \in Contents, t \in TypeArgs, m \in MetadataArgs :
        Call("insert",
             [NoArgs EXCEPT !.i = i, !.content = c, !.cell_type = t, !.metadata = m],
             insert_cell(nb, i, c, t, m))

MergeCall ==
    \E i \in Indices(nb), j \in Indices(nb) :
        Call("merge", [NoArgs EXCEPT !.i = i, !.j = j], merge_cells(nb, i, j))

SwapCall ==
    \E i \in Indices(nb), j \in Indices(nb) :
        Call("swap", [NoArgs EXCEPT !.i = i, !.j = j], swap_cells(nb, i, j))

ExtractCall ==
    /\ last' = [op |-> "extract_code", args |-> NoArgs, before |-> nb,
                res |-> Fail("none"), code |-> extract_code_from_notebook(nb),
                files |-> files]
    /\ calls' = calls + 1
    /\ UNCHANGED <<nb, files>>

MarkdownCall ==
    \E md \in MarkdownInputs :
        /\ last' = [op |-> "from_markdown", args |-> [NoArgs EXCEPT !.md = md],
                    before |-> nb,
                    res |-> [ok |-> TRUE, out |-> <<notebook_from_markdown(md)>>,
                             err |-> "none"],
                    code |-> <<>>, files |-> files]
        /\ nb' = notebook_from_markdown(md)
        /\ calls' = calls + 1
        /\ UNCHANGED files

FormatArgs ==
    SupportedFormats \cup {<<"H", "T", "M", "L">>, <<"P", "y", "t", "h", "o", "n">>,
                          <<"d", "o", "c", "x">>, <<>>}
PathArgs == {Null(""), Some(""), Some("out.py")}

ConvertCall ==
    \E f \in FormatArgs, ei \in BOOLEAN, eo \in BOOLEAN,
       installed \in BOOLEAN, exported \in BOOLEAN :
        /\ last' = [op |-> "convert_to_format",
                    args |-> [NoArgs EXCEPT !.output_format = f, !.exclude_input = ei,
                                            !.exclude_output = eo,
                                            !.installed = installed,
                                            !.exported = exported],
                    before |-> nb,
                    res |-> convert_notebook_to_format(nb, f, ei, eo, installed, exported),
                    code |-> <<>>, files |-> files]
        /\ calls' = calls + 1
        /\ UNCHANGED <<nb, files>>

ExecutableCall ==
    \E f \in FormatArgs, p \in PathArgs,
       installed \in BOOLEAN, exported \in BOOLEAN, written \in BOOLEAN :
        LET r == convert_notebook_to_executable(nb, f, p, installed, exported,
                                                written, files)
        IN
        /\ last' = [op |-> "notebook_to_executable",
                    args |-> [NoArgs EXCEPT !.output_format = f, !.output_path = p,
                                            !.installed = installed,
                                            !.exported = exported,
                                            !.written = written],
                    before |-> nb, res |-> r.res, code |-> <<>>, files |-> files]
        /\ files' = r.files
        /\ calls' = calls + 1
        /\ UNCHANGED nb

(* serialize(parse(x)): notebook_to_json(notebook_from_json(x)) *)
RoundTripCall == Call("round_trip", NoArgs, Ok(notebook_from_json(nb)))

(* One call on a notebook supplied from outside *)
First == calls = 0

Edit == First /\ EditCall
Create == First /\ CreateCall
AppendCell == First /\ AppendCall
Insert == First /\ InsertCall
Merge == First /\ MergeCall
Swap == First /\ SwapCall
ExtractCode == First /\ ExtractCall
ConvertToFormat == First /\ ConvertCall
ConvertToExecutable == First /\ ExecutableCall
RoundTrip == First /\ RoundTripCall

Next ==
    \/ Edit \/ Create \/ AppendCell \/ Insert \/ Merge \/ Swap \/ ExtractCode
    \/ ConvertToFormat \/ ConvertToExecutable \/ RoundTrip

Spec == Init /\ [][Next]_vars

(* Repeated swaps, each applied to the notebook the previous one returned *)
SwapAgain == calls < MaxCalls /\ SwapCall

NextSwap == SwapAgain

SpecSwap == Init /\ [][NextSwap]_vars

(* the string a source stands for: ''.join(source) for a list *)
ContentString(source) ==
    IF source.kind = "list" THEN Join(source.val) ELSE source.val[1]

(* contents for repeated edits: the sources of the cells, as stored and as
   strings, and one new text *)
EditContents ==
    UNION {{c.source, StrSource(ContentString(c.source))} : c \in InitCells}
    \cup {StrSource(<<"p", NL, "q">>)}

(* Repeated edits of the content of a cell, cell_type omitted *)
EditAgain ==
    /\ calls < MaxCalls
    /\ \E i \in 0..(CellCount(nb) - 1), c \in EditContents :
          Call("edit", [NoArgs EXCEPT !.i = i, !.content = c],
               edit_cell(nb, i, c, NoType))

NextEdit == EditAgain

SpecEdit == Init /\ [][NextEdit]_vars

(* A session: successful cell operations, each applied to the notebook the
   previous one returned *)
SessionNotebooks ==
    {BareNotebook, JsonNotebook(<<>>), ExtendedNotebook,
     JsonNotebook(<<StreamCell, RawCell>>), JsonNotebook(<<EmptyCell, FreshCell>>)}
SessionContents == {StrSource(<<"p", NL, "q">>)}
ValidIndices(j) == 0..(CellCount(j) - 1)
More == calls < MaxCalls

SessionEdit ==
    /\ More
    /\ \E i \in ValidIndices(nb), c \in SessionContents, t \in CellTypes \cup {NoType} :
          Call("edit", [NoArgs EXCEPT !.i = i, !.content = c, !.cell_type = t],
               edit_cell(nb, i, c, t))

SessionCreate ==
    /\ More
    /\ \E c \in SessionContents, t \in CellTypes :
          Call("create", [NoArgs EXCEPT !.content = c, !.cell_type = t],
               create_cell(nb, c, t, Null({})))

SessionAppend ==
    /\ More
    /\ \E c \in SessionContents, t \in CellTypes :
          Call("append", [NoArgs EXCEPT !.content = c, !.cell_type = t],
               append_cell(nb, c, t, Null({})))

SessionInsert ==
    /\ More
    /\ \E i \in 0..CellCount(nb), c \in SessionContents, t \in CellTypes :
          Call("insert", [NoArgs EXCEPT !.i = i, !.content = c, !.cell_type = t],
               insert_cell(nb, i, c, t, Null({})))

SessionMerge ==
    /\ More
    /\ \E i \in ValidIndices(nb), j \in ValidIndices(nb) :
          /\ i <= j
          /\ Call("merge", [NoArgs EXCEPT !.i = i, !.j = j], merge_cells(nb, i, j))

SessionSwap ==
    /\ More
    /\ \E i \in ValidIndices(nb), j \in ValidIndices(nb) :
          Call("swap", [NoArgs EXCEPT !.i = i, !.j = j], swap_cells(nb, i, j))

NextSession ==
    \/ SessionEdit \/ SessionCreate \/ SessionAppend
    \/ SessionInsert \/ SessionMerge \/ SessionSwap

InitSession ==
    /\ nb \in SessionNotebooks
    /\ last = NoCall
    /\ calls = 0
    /\ files = {}

SpecSession == InitSession /\ [][NextSession]_vars

(* Conversions from markdown text *)
InitMarkdown ==
    /\ nb = BareNotebook
    /\ last = NoCall
    /\ calls = 0
    /\ files = {}

FromMarkdown == First /\ MarkdownCall

NextMarkdown == FromMarkdown

SpecMarkdown == InitMarkdown /\ [][NextMarkdown]_vars

----------------------------------------------------------------------------
(* Vocabulary of the properties *)

Args == last.args
Before == notebook_from_json(last.before)
BeforeCount == Len(Before.cells)
Returned == last.res.out[1]
ReturnedCells == Returned.cells.v
InRange(i) == 0 <= i /\ i < BeforeCount
RangeFailure == ~last.res.ok /\ last.res.out = <<>> /\ last.res.err = "range"

RECURSIVE JoinWith(_, _)
(* the strings of l in order with sep between neighbours *)
JoinWith(l, sep) ==
    IF l = <<>> THEN <<>>
    ELSE IF Len(l) = 1 THEN l[1]
    ELSE l[1] \o sep \o JoinWith(Tail(l), sep)

(* the text of a source: the string, or its strings run together *)
SourceText(source) == IF source.kind = "str" THEN source.val[1] ELSE Join(source.val)

(* a code cell as the operations create it *)
CodeDefaulted(jc) ==
    jc.cell_type = "code" => jc.outputs = Some(<<>>) /\ jc.execution_count.st = "absent"

(* cell jc of a returned notebook is the cell c of the parsed input *)
SameCell(jc, c) ==
    /\ jc = CellToJson(c)
    /\ jc.source = c.source
    /\ jc.cell_type = c.cell_type

(* C1: edit, insert, merge and swap fail with a range error and return no
   notebook when an index is out of [0, cell_count) (-1, cell_count and
   cell_count+1 are all tried); insert accepts position = cell_count and
   rejects -1 and cell_count+1; merge rejects end < start; swap rejects a
   bad index in either place.  insert reports the range error for every
   valid cell type, and returns no notebook whatever the cell type. *)
C1_IndexValidation ==
    /\ last.op = "edit" /\ ~InRange(Args.i) => RangeFailure
    /\ last.op = "insert" /\ (Args.i < 0 \/ Args.i > BeforeCount) =>
          /\ ~last.res.ok /\ last.res.out = <<>>
          /\ Args.cell_type \in CellTypes => RangeFailure
    /\ last.op = "insert" /\ Args.i = BeforeCount /\ Args.cell_type \in CellTypes =>
          last.res.ok
    /\ last.op = "merge" /\ (~InRange(Args.i) \/ ~InRange(Args.j) \/ Args.j < Args.i) =>
          RangeFailure
    /\ last.op = "swap" /\ (~InRange(Args.i) \/ ~InRange(Args.j)) => RangeFailure
    /\ last.op \in {"edit", "insert", "merge", "swap"} /\ ~last.res.ok => nb = last.before

C1_Witness ==
    /\ last.op = "merge"
    /\ BeforeCount = 2
    /\ Args.i = 1
    /\ Args.j = BeforeCount
    /\ RangeFailure

(* C3: a successful merge(start, end) returns cell_count - (end - start)
   cells; the cell at start has the type of the original cell at start; the
   cells before start and after end are the original ones in their order;
   a merged code cell has outputs = [] and no execution_count. *)
C3_MergeShape ==
    last.op = "merge" /\ last.res.ok =>
        LET width == Args.j - Args.i IN
        /\ InRange(Args.i) /\ InRange(Args.j) /\ Args.i <= Args.j
        /\ Len(ReturnedCells) = BeforeCount - width
        /\ ReturnedCells[Args.i + 1].cell_type = Before.cells[Args.i + 1].cell_type
        /\ \A k \in 0..(Args.i - 1) : SameCell(ReturnedCells[k + 1], Before.cells[k + 1])
        /\ \A k \in (Args.j + 1)..(BeforeCount - 1) :
              SameCell(ReturnedCells[k - width + 1], Before.cells[k + 1])
        /\ CodeDefaulted(ReturnedCells[Args.i + 1])

C3_Witness ==
    /\ last.op = "merge" /\ last.res.ok
    /\ last.before = MergeExample
    /\ Args.i = 1 /\ Args.j = 3
    /\ Len(ReturnedCells) = 3
    /\ ReturnedCells[2].cell_type = "code"


(* the sources of the cells start..end of the parsed input *)
MergedSources ==
    [k \in 1..(Args.j - Args.i + 1) |-> Before.cells[Args.i + k].source]

(* a source is empty when it is the empty string or the empty sequence *)
EmptySource(source) ==
    \/ source.kind = "str" /\ source.val[1] = <<>>
    \/ source.kind = "list" /\ source.val = <<>>

RECURSIVE NonEmptyTexts(_)
NonEmptyTexts(sources) ==
    IF sources = <<>> THEN <<>>
    ELSE IF EmptySource(Head(sources)) THEN NonEmptyTexts(Tail(sources))
    ELSE <<SourceText(Head(sources))>> \o NonEmptyTexts(Tail(sources))

(* C4: the source of the merged cell is the merged cells' sources in order
   with one newline between consecutive non-empty sources and none next to
   an empty source (an empty string or an empty sequence, first or later). *)
C4_MergeSeparators ==
    last.op = "merge" /\ last.res.ok =>
        SourceText(ReturnedCells[Args.i + 1].source)
            = JoinWith(NonEmptyTexts(MergedSources), <<NL>>)

(* C5: create with a valid cell type appends exactly one cell, the last,
   holding the given content (a string as its lines) and metadata; a code
   cell is returned with outputs = [] and without execution_count. *)
HoldsContent(jc, content) ==
    IF content.kind = "str"
    THEN /\ jc.source.kind = "list"
         /\ JoinWith(jc.source.val, <<NL>>) = content.val[1]
         /\ \A k \in 1..Len(jc.source.val) :
               \A x \in 1..Len(jc.source.val[k]) : jc.source.val[k][x] # NL
    ELSE jc.source = content

HoldsMetadata(jc, metadata) ==
    jc.metadata = Some(IF metadata.st = "set" THEN metadata.v ELSE {})

C5_CreateAppends ==
    last.op = "create" /\ Args.cell_type \in CellTypes =>
        /\ last.res.ok
        /\ Len(ReturnedCells) = BeforeCount + 1
        /\ \A k \in 1..BeforeCount : SameCell(ReturnedCells[k], Before.cells[k])
        /\ LET new == ReturnedCells[BeforeCount + 1] IN
           /\ new.cell_type = Args.cell_type
           /\ HoldsContent(new, Args.content)
           /\ HoldsMetadata(new, Args.metadata)
           /\ CodeDefaulted(new)
           /\ new.cell_type # "code" => new.outputs.st = "absent"

C5_Witness ==
    /\ last.op = "create" /\ last.res.ok
    /\ Args.cell_type = "code"
    /\ Args.content = StrSource(<<"p", NL, "q">>)
    /\ Args.metadata = Some({"k"})
    /\ BeforeCount = 2
    /\ ReturnedCells[3].source = ListSource(<< <<"p">>, <<"q">> >>)
    /\ ReturnedCells[3].outputs = Some(<<>>)

(* C6: insert with 0 <= position <= cell_count returns cell_count + 1 cells;
   the new cell is at position, the cells before it keep their index, the
   cells from position on move one index up unchanged; a new code cell has
   outputs = [] and no execution_count. *)
C6_InsertShifts ==
    last.op = "insert" /\ Args.cell_type \in CellTypes
      /\ 0 <= Args.i /\ Args.i <= BeforeCount =>
        /\ last.res.ok
        /\ Len(ReturnedCells) = BeforeCount + 1
        /\ \A k \in 0..(Args.i - 1) : SameCell(ReturnedCells[k + 1], Before.cells[k + 1])
        /\ \A k \in Args.i..(BeforeCount - 1) :
              SameCell(ReturnedCells[k + 2], Before.cells[k + 1])
        /\ LET new == ReturnedCells[Args.i + 1] IN
           /\ new.cell_type = Args.cell_type
           /\ HoldsContent(new, Args.content)
           /\ HoldsMetadata(new, Args.metadata)
           /\ CodeDefaulted(new)

C6_Witness ==
    /\ last.op = "insert" /\ last.res.ok
    /\ Args.cell_type = "code"
    /\ BeforeCount = 2 /\ Args.i = 1
    /\ last.before.cells.v[1] # last.before.cells.v[2]
    /\ ReturnedCells[3].source = last.before.cells.v[2].source
    /\ ReturnedCells[2].outputs = Some(<<>>)

(* C7: edit with cell_type markdown or raw on a valid index returns the cell
   with empty outputs and no execution_count, whatever it had before. *)
C7_EditClearsOutputs ==
    last.op = "edit" /\ InRange(Args.i) /\ Args.cell_type \in {"markdown", "raw"} =>
        /\ last.res.ok
        /\ ReturnedCells[Args.i + 1].cell_type = Args.cell_type
        /\ ReturnedCells[Args.i + 1].outputs = Some(<<>>)
        /\ ReturnedCells[Args.i + 1].execution_count.st = "absent"

C7_Witness ==
    /\ last.op = "edit" /\ last.res.ok
    /\ Args.cell_type = "raw"
    /\ Before.cells[Args.i + 1].cell_type = "code"
    /\ Before.cells[Args.i + 1].execution_count.st = "set"
    /\ Before.cells[Args.i + 1].outputs.v # <<>>
    /\ ReturnedCells[Args.i + 1].outputs = Some(<<>>)

(* C8: after edit replaces the source of a code cell that has an
   execution_count, with cell_type omitted or code, the returned cell
   carries no execution_count. *)
C8_EditResetsCount ==
    last.op = "edit" /\ last.res.ok /\ Args.cell_type \in {NoType, "code"}
      /\ Before.cells[Args.i + 1].cell_type = "code"
      /\ Before.cells[Args.i + 1].execution_count.st = "set"
      /\ ReturnedCells[Args.i + 1].source # Before.cells[Args.i + 1].source =>
        ReturnedCells[Args.i + 1].execution_count.st = "absent"

(* positions of the code cells of the input, in notebook order *)
CodePositions == {k \in 1..BeforeCount : Before.cells[k].cell_type = "code"}

(* C9: extract_code returns one string per code cell in notebook order, the
   cell's source text; other cells give nothing; no code cell, empty result. *)
C9_ExtractCode ==
    last.op = "extract_code" =>
        /\ Len(last.code) = Cardinality(CodePositions)
        /\ \A k \in CodePositions :
              last.code[Cardinality({x \in CodePositions : x <= k})]
                 = SourceText(Before.cells[k].source)

C9_Witness ==
    /\ last.op = "extract_code"
    /\ last.before = ExtractExample
    /\ last.code = << <<"a", "=", "1">>, <<"b", "=", "2">> >>


(* Equality of documents that ignores fields that are null *)
DropNull(o, d) == IF o.st = "null" THEN Absent(d) ELSE o

OutputSansNull(jo) == [jo EXCEPT !.metadata = DropNull(@, {})]

CellSansNull(jc) ==
    [jc EXCEPT !.metadata = DropNull(@, {}),
               !.outputs = IF @.st = "set"
                           THEN Some([k \in 1..Len(@.v) |-> OutputSansNull(@.v[k])])
                           ELSE Absent(<<>>),
               !.execution_count = DropNull(@, 0)]

SansNull(j) ==
    [j EXCEPT !.cells = IF @.st = "set"
                        THEN Some([k \in 1..Len(@.v) |-> CellSansNull(@.v[k])])
                        ELSE Absent(<<>>),
              !.metadata = DropNull(@, {}),
              !.nbformat = DropNull(@, 0),
              !.nbformat_minor = DropNull(@, 0)]

SameDocument(j1, j2) == SansNull(j1) = SansNull(j2)

(* C2: swap(swap(nb, i, j), i, j) == nb for valid i, j (i = j included):
   a second swap with the same indices returns the original notebook. *)
C2_SwapTwice ==
    [][(/\ last.op = "swap" /\ last.res.ok
        /\ last'.op = "swap" /\ last'.res.ok
        /\ last'.args = last.args)
       => SameDocument(last'.res.out[1], last.before)]_vars

(* the lines of a markdown text *)
HeaderLine(lines, k) ==
    LET h == HashRun(lines[k], 1) IN
    /\ h >= 1
    /\ \/ h < Len(lines[k]) /\ lines[k][h + 1] = " "
       \/ h = Len(lines[k]) /\ k < Len(lines)

HeaderLines(lines) == {k \in 1..Len(lines) : HeaderLine(lines, k)}

(* some character before the first header line is not whitespace *)
LeadingContent(lines) ==
    \E k \in 1..Len(lines) :
        /\ \A h \in HeaderLines(lines) : k < h
        /\ \E x \in 1..Len(lines[k]) : ~IsSpace(lines[k][x])

(* C10: markdown_to_notebook returns markdown cells only; their number is
   the number of header lines plus one when content precedes the first
   header; each header cell starts with its header line; with no header
   line there is one cell holding the whole input. *)
C10_MarkdownCells ==
    last.op = "from_markdown" =>
        LET lines == Split(Args.md)
            headers == HeaderLines(lines)
            lead == IF LeadingContent(lines) THEN 1 ELSE 0
        IN
        /\ \A k \in 1..Len(ReturnedCells) : ReturnedCells[k].cell_type = "markdown"
        /\ headers = {} =>
              /\ Len(ReturnedCells) = 1
              /\ JoinWith(ReturnedCells[1].source.val, <<NL>>) = Args.md
        /\ headers # {} =>
              /\ Len(ReturnedCells) = Cardinality(headers) + lead
              /\ \A h \in headers :
                    ReturnedCells[Cardinality({x \in headers : x <= h}) + lead].source.val[1]
                       = lines[h]


ConversionFailure == ~last.res.ok /\ last.res.out = <<>>

(* C11 as stated: convert_to_format with a format string outside {python,
   html, markdown, rst, latex, pdf, slides} fails with the unsupported-format
   error and returns no text, and notebook_to_executable with such a format
   and an output_path fails and leaves the files as they were (nbconvert
   being importable). *)
C11_UnsupportedFormat ==
    /\ last.op = "convert_to_format" /\ Args.installed
         /\ Args.output_format \notin SupportedFormats =>
          ConversionFailure /\ last.res.err = "unsupported_format"
    /\ last.op = "notebook_to_executable" /\ Args.installed
         /\ Args.output_format \notin SupportedFormats /\ Args.output_path.st = "set" =>
          ConversionFailure /\ files = last.files

(* C11 amended: the format is compared in lower case.  A format string whose
   lower-case form is outside the seven names makes convert_to_format fail
   and return no text, with the unsupported-format error whenever nbconvert
   can be imported; notebook_to_executable then fails too and the files stay
   as they were; the files change only in a call whose conversion succeeded
   and that was given a non-empty output_path. *)
C11_UnsupportedLowerCase ==
    /\ last.op \in {"convert_to_format", "notebook_to_executable"}
         /\ Lower(Args.output_format) \notin SupportedFormats =>
          /\ ConversionFailure
          /\ files = last.files
          /\ Args.installed => last.res.err = "unsupported_format"
    /\ last.op = "notebook_to_executable" /\ files # last.files =>
          /\ last.res.ok
          /\ Args.output_path.st = "set"
          /\ files = {[path |-> Args.output_path.v, text |-> last.res.out[1]]}

C11_Witness ==
    /\ last.op = "notebook_to_executable"
    /\ Args.output_format = <<"d", "o", "c", "x">>
    /\ Args.output_path = Some("out.py")
    /\ Args.installed /\ Args.exported /\ Args.written
    /\ ConversionFailure
    /\ last.res.err = "unsupported_format"
    /\ files = {}


(* the four top-level keys of the notebook format are present *)
WellFormed(j) ==
    /\ j.cells.st = "set" /\ j.metadata.st = "set"
    /\ j.nbformat.st = "set" /\ j.nbformat_minor.st = "set"
    /\ \A k \in 1..Len(j.cells.v) : j.cells.v[k].metadata.st = "set"

(* C12: serialize(parse(x)) equals x for every well-formed notebook x,
   ignoring key order and null fields: every field and every unrecognised
   key at the top level, in the metadata, in each cell and in each output
   keeps its value, and no key is added. *)
C12_RoundTrip ==
    last.op = "round_trip" /\ WellFormed(last.before) =>
        last.res.ok /\ SameDocument(Returned, last.before)


(* the lines of a source joined by newlines *)
LinesText(source) ==
    IF source.kind = "list" THEN JoinWith(source.val, <<NL>>) ELSE source.val[1]

(* two sources with the same content: the same value, the same string, or
   the same lines *)
ContentEqual(s1, s2) ==
    \/ s1 = s2
    \/ ContentString(s1) = ContentString(s2)
    \/ LinesText(s1) = LinesText(s2)

(* content is the source as stored, or the string it stands for *)
ContentOf(content, source) ==
    content = source \/ content = StrSource(ContentString(source))

(* C13: edit(nb, i, new_content) followed by edit of index i with the
   original content of the cell gives the cell the content it had in nb,
   for a source stored as a string and for one stored as a sequence. *)
C13_EditRestores ==
    [][(/\ last.op = "edit" /\ last.res.ok
        /\ last'.op = "edit" /\ last'.res.ok
        /\ last'.args.i = last.args.i
        /\ ContentOf(last'.args.content, last.before.cells.v[last.args.i + 1].source))
       => ContentEqual(last'.res.out[1].cells.v[last.args.i + 1].source,
                       last.before.cells.v[last.args.i + 1].source)]_vars


(* the cells of the notebook the caller holds *)
HeldCells == IF nb.cells.st = "set" THEN nb.cells.v ELSE <<>>

NoResults(jc) ==
    /\ jc.outputs.st = "set" => jc.outputs.v = <<>>
    /\ jc.execution_count.st # "set"

(* C14: from a notebook whose markdown and raw cells have no outputs and no
   execution_count, after any sequence of successful edit, create, append,
   insert, merge and swap calls every markdown and raw cell still has no
   non-empty outputs and no execution_count. *)
C14_TextCellsHaveNoResults ==
    \A k \in 1..Len(HeldCells) :
        HeldCells[k].cell_type \in {"markdown", "raw"} => NoResults(HeldCells[k])

C14_Witness ==
    /\ calls >= 2
    /\ last.op = "edit" /\ last.res.ok
    /\ Args.cell_type = "raw"
    /\ Before.cells[Args.i + 1].cell_type = "code"
    /\ Before.cells[Args.i + 1].outputs.v # <<>>
    /\ Before.cells[Args.i + 1].execution_count.st = "set"
    /\ HeldCells[Args.i + 1].cell_type = "raw"
    /\ NoResults(HeldCells[Args.i + 1])

(* the cells of the notebook given to the call *)
GivenCells == IF last.before.cells.st = "set" THEN last.before.cells.v ELSE <<>>

CellOps == {"edit", "create", "append", "insert", "merge", "swap"}

(* returned cell jc is the k-th given cell, fields that are null aside *)
KeptAsGiven(jc, k) == CellSansNull(jc) = CellSansNull(GivenCells[k])

(* returned cell jc is the serialised k-th cell of the parsed input *)
KeptAsParsed(jc, k) == SameCell(jc, Before.cells[k])

(* returned cell jc has the content of the k-th given cell *)
SameContent(jc, k) ==
    /\ jc.source = GivenCells[k].source
    /\ jc.cell_type = GivenCells[k].cell_type

(* the cells a successful call does not target, Kept telling what it is for
   a cell of an edit or a swap to be unchanged *)
Frame(Kept(_, _)) ==
    /\ last.op = "edit" =>
         /\ Len(ReturnedCells) = Len(GivenCells)
         /\ \A k \in 1..Len(GivenCells) : k # Args.i + 1 => Kept(ReturnedCells[k], k)
    /\ last.op = "swap" =>
         /\ Len(ReturnedCells) = Len(GivenCells)
         /\ \A k \in 1..Len(GivenCells) :
               k \notin {Args.i + 1, Args.j + 1} => Kept(ReturnedCells[k], k)
    /\ last.op \in {"create", "append"} =>
         \A k \in 1..Len(GivenCells) : SameContent(ReturnedCells[k], k)
    /\ last.op = "insert" =>
         \A k \in 1..Len(GivenCells) :
               SameContent(ReturnedCells[IF k <= Args.i THEN k ELSE k + 1], k)
    /\ last.op = "merge" =>
         \A k \in 1..Len(GivenCells) :
               /\ k <= Args.i => SameContent(ReturnedCells[k], k)
               /\ k > Args.j + 1 => SameContent(ReturnedCells[k - (Args.j - Args.i)], k)

NotebookLevelKept ==
    /\ Returned.metadata = Some(Before.metadata)
    /\ Returned.nbformat = Some(Before.nbformat)
    /\ Returned.nbformat_minor = Some(Before.nbformat_minor)

(* C15: every successful cell operation changes only the cells it targets:
   edit leaves the cell count and every cell other than cell_index unchanged,
   swap leaves the cell count and every cell other than the two indexed ones
   unchanged, create, append, insert and merge leave the content of every
   cell that was there outside the merged range unchanged, and all of them
   return the metadata, nbformat and nbformat_minor of the parsed input. *)
C15_FrameEffect ==
    last.op \in CellOps /\ last.res.ok => Frame(KeptAsGiven) /\ NotebookLevelKept

(* the same frame, an unchanged cell being the serialised parsed cell *)
FrameOfParsedInput ==
    last.op \in CellOps /\ last.res.ok => Frame(KeptAsParsed) /\ NotebookLevelKept

====
